---- MODULE Spec2Model ----
(***************************************************************************)
(* A model of src/main.py (class WordleSolver): the penalty table, the     *)
(* feedback encoder check_word, the candidate filter filter_wordlist, the  *)
(* guess selector get_best_guess and the driving loop play.                *)
(*                                                                         *)
(* A word is a sequence of five one-letter strings; a colour result is a   *)
(* sequence of five of "G", "Y", "X" (the code joins them into a string).  *)
(* None (no guess, no target) is the empty sequence.                       *)
(***************************************************************************)
EXTENDS Integers, Sequences, FiniteSets, TLC

VARIABLES wordlist, freqs, penalty_dict, wordlist_filtered, turn, hardmode,
          max_comparisons, target, guess, pc, path, sublist, calls, rounds

vars == <<wordlist, freqs, penalty_dict, wordlist_filtered, turn, hardmode,
          max_comparisons, target, guess, pc, path, sublist, calls, rounds>>

None == <<>>

\* result = ['X'] * 5 : the length of a colour result (and of a word)
WordLen == 5

AllGreen == <<"G", "G", "G", "G", "G">>

\* validate_color_string: length 5 and every symbol one of G, X, Y
validate_color_string(s) ==
    /\ Len(s) = WordLen
    /\ \A i \in 1..Len(s) : s[i] \in {"G", "X", "Y"}

\* the colour strings a user can get past validate_color_string
ColorStrings == [1..WordLen -> {"G", "X", "Y"}]

Min(a, b) == IF a < b THEN a ELSE b

\* zip(a, b) stops at the shorter of the two
ZipLen(a, b) == Min(Len(a), Len(b))

\* list.count(x)
Count(s, x) == Cardinality({i \in 1..Len(s) : s[i] = x})

\* x in list
In(x, s) == \E i \in 1..Len(s) : s[i] = x

\* list.index(x), for x in list: the first position holding x
Index(s, x) == CHOOSE i \in 1..Len(s) : s[i] = x /\ \A j \in 1..(i-1) : s[j] # x

----------------------------------------------------------------------------
(* check_word                                                              *)

\* the first loop of check_word ("check for greens"), from position i on;
\* st holds the three lists target, guess, result
RECURSIVE CheckGreens(_, _)
CheckGreens(i, st) ==
    IF i > ZipLen(st.target, st.guess) THEN st
    ELSE IF st.target[i] = st.guess[i]
         THEN CheckGreens(i + 1, [target |-> [st.target EXCEPT ![i] = "-"],
                                  guess  |-> [st.guess EXCEPT ![i] = "-"],
                                  result |-> [st.result EXCEPT ![i] = "G"]])
         ELSE CheckGreens(i + 1, st)

\* the second loop of check_word ("check for yellows"), from position i on
RECURSIVE CheckYellows(_, _)
CheckYellows(i, st) ==
    IF i > Len(st.guess) THEN st
    ELSE IF st.guess[i] # "-" /\ In(st.guess[i], st.target)
         THEN CheckYellows(i + 1,
                  [target |-> [st.target EXCEPT ![Index(st.target, st.guess[i])] = "-"],
                   guess  |-> [st.guess EXCEPT ![i] = "-"],
                   result |-> [st.result EXCEPT ![i] = "Y"]])
         ELSE CheckYellows(i + 1, st)

\* a plausible slip: the yellow loop does not consume the matched target letter
RECURSIVE CheckYellowsNoConsume(_, _)
CheckYellowsNoConsume(i, st) ==
    IF i > Len(st.guess) THEN st
    ELSE IF st.guess[i] # "-" /\ In(st.guess[i], st.target)
         THEN CheckYellowsNoConsume(i + 1,
                  [target |-> st.target,
                   guess  |-> [st.guess EXCEPT ![i] = "-"],
                   result |-> [st.result EXCEPT ![i] = "Y"]])
         ELSE CheckYellowsNoConsume(i + 1, st)

\* a plausible slip: the green loop leaves the matched letter in the target
RECURSIVE CheckGreensKeepTarget(_, _)
CheckGreensKeepTarget(i, st) ==
    IF i > ZipLen(st.target, st.guess) THEN st
    ELSE IF st.target[i] = st.guess[i]
         THEN CheckGreensKeepTarget(i + 1,
                  [target |-> st.target,
                   guess  |-> [st.guess EXCEPT ![i] = "-"],
                   result |-> [st.result EXCEPT ![i] = "G"]])
         ELSE CheckGreensKeepTarget(i + 1, st)

check_word_keep_target(t, g) ==
    CheckYellows(1, CheckGreensKeepTarget(1, [target |-> t, guess |-> g,
                              result |-> [i \in 1..WordLen |-> "X"]])).result

check_word_no_consume(t, g) ==
    CheckYellowsNoConsume(1, CheckGreens(1, [target |-> t, guess |-> g,
                              result |-> [i \in 1..WordLen |-> "X"]])).result

check_word(t, g) ==
    CheckYellows(1, CheckGreens(1, [target |-> t, guess |-> g,
                                    result |-> [i \in 1..WordLen |-> "X"]])).result

----------------------------------------------------------------------------
(* filter_wordlist                                                         *)

\* the first loop ("filter by green letters"), from position i on; st holds
\* the list being filtered and the green list
RECURSIVE FilterGreens(_, _, _, _)
FilterGreens(i, g, r, st) ==
    IF i > ZipLen(g, r) THEN st
    ELSE IF r[i] = "G"
         THEN FilterGreens(i + 1, g, r,
                  [wl    |-> SelectSeq(st.wl, LAMBDA word : word[i] = g[i]),
                   green |-> Append(st.green, g[i])])
         ELSE FilterGreens(i + 1, g, r, st)

\* the second loop ("filter yellow letters"); st holds the list and the yellow list
RECURSIVE FilterYellows(_, _, _, _, _)
FilterYellows(i, g, r, green, st) ==
    IF i > ZipLen(g, r) THEN st
    ELSE IF r[i] = "Y"
         THEN FilterYellows(i + 1, g, r, green,
                  [wl     |-> SelectSeq(SelectSeq(st.wl, LAMBDA word : word[i] # g[i]),
                                  LAMBDA word : Count(word, g[i])
                                      >= 1 + Count(green, g[i]) + Count(st.yellow, g[i])),
                   yellow |-> Append(st.yellow, g[i])])
         ELSE FilterYellows(i + 1, g, r, green, st)

\* the third loop ("filter grey letters")
RECURSIVE FilterGreys(_, _, _, _, _, _)
FilterGreys(i, g, r, green, yellow, wl) ==
    IF i > ZipLen(g, r) THEN wl
    ELSE IF r[i] = "X"
         THEN FilterGreys(i + 1, g, r, green, yellow,
                  SelectSeq(SelectSeq(wl, LAMBDA word : word[i] # g[i]),
                      LAMBDA word : Count(word, g[i])
                          = Count(green, g[i]) + Count(yellow, g[i])))
         ELSE FilterGreys(i + 1, g, r, green, yellow, wl)

\* a plausible slip: the grey loop forgets the yellows when it counts
RECURSIVE FilterGreysGreenOnly(_, _, _, _, _, _)
FilterGreysGreenOnly(i, g, r, green, yellow, wl) ==
    IF i > ZipLen(g, r) THEN wl
    ELSE IF r[i] = "X"
         THEN FilterGreysGreenOnly(i + 1, g, r, green, yellow,
                  SelectSeq(SelectSeq(wl, LAMBDA word : word[i] # g[i]),
                      LAMBDA word : Count(word, g[i]) = Count(green, g[i])))
         ELSE FilterGreysGreenOnly(i + 1, g, r, green, yellow, wl)

\* a plausible slip: the yellow loop does not require the extra occurrence
RECURSIVE FilterYellowsNoCount(_, _, _, _, _)
FilterYellowsNoCount(i, g, r, green, st) ==
    IF i > ZipLen(g, r) THEN st
    ELSE IF r[i] = "Y"
         THEN FilterYellowsNoCount(i + 1, g, r, green,
                  [wl     |-> SelectSeq(st.wl, LAMBDA word : word[i] # g[i]),
                   yellow |-> Append(st.yellow, g[i])])
         ELSE FilterYellowsNoCount(i + 1, g, r, green, st)

filter_wordlist_green_only(wl, g, r) ==
    LET gs == FilterGreens(1, g, r, [wl |-> wl, green |-> <<>>])
        ys == FilterYellows(1, g, r, gs.green, [wl |-> gs.wl, yellow |-> <<>>])
    IN  FilterGreysGreenOnly(1, g, r, gs.green, ys.yellow, ys.wl)

filter_wordlist_no_count(wl, g, r) ==
    LET gs == FilterGreens(1, g, r, [wl |-> wl, green |-> <<>>])
        ys == FilterYellowsNoCount(1, g, r, gs.green, [wl |-> gs.wl, yellow |-> <<>>])
    IN  FilterGreys(1, g, r, gs.green, ys.yellow, ys.wl)

\* a plausible slip: the green loop reads self.wordlist, not self.wordlist_filtered
filter_wordlist_from_lexicon(wl, g, r) ==
    LET gs == FilterGreens(1, g, r, [wl |-> wordlist, green |-> <<>>])
        ys == FilterYellows(1, g, r, gs.green, [wl |-> gs.wl, yellow |-> <<>>])
    IN  FilterGreys(1, g, r, gs.green, ys.yellow, ys.wl)

\* filter_wordlist(guess, result) applied to self.wordlist_filtered = wl
filter_wordlist(wl, g, r) ==
    LET gs == FilterGreens(1, g, r, [wl |-> wl, green |-> <<>>])
        ys == FilterYellows(1, g, r, gs.green, [wl |-> gs.wl, yellow |-> <<>>])
    IN  FilterGreys(1, g, r, gs.green, ys.yellow, ys.wl)

ToSet(s) == {s[i] : i \in 1..Len(s)}

----------------------------------------------------------------------------
(* get_freq_penalty_dict                                                   *)

\* self.highest_penalty = 2.5, kept as the fraction 5/2
HighestPenaltyNum == 5
HighestPenaltyDen == 2

\* self.max_comparisons = 1000000
MaxComparisonsDefault == 1000000

\* penalties = [3, 2, 1.5, 1.25, 1.1, 1], each times 20
BasePenalties20 == <<60, 40, 30, 25, 22, 20>>

\* every penalty of the model is the code's penalty times PenaltyScale, an
\* integer: (highest_penalty-1)*(p-1)/2 + 1, times 40 * HighestPenaltyDen.
\* With the counts the model reaches, no two products count * penalty that
\* differ as rationals are closer than 1/PenaltyScale, so the float
\* comparisons of the code order them as the integers here do.
PenaltyScale == 40 * HighestPenaltyDen

AdjustedPenalties ==
    [k \in 1..Len(BasePenalties20) |->
        (HighestPenaltyNum - HighestPenaltyDen) * (BasePenalties20[k] - 20)
            + PenaltyScale]

\* Python list indexing l[i]: 0-based, a negative i counts from the end,
\* anything outside -len..len-1 raises IndexError
PyIndexOk(l, i) == -Len(l) <= i /\ i < Len(l)
PyGet(l, i) == IF i >= 0 THEN l[i + 1] ELSE l[Len(l) + i + 1]

\* the loop of get_freq_penalty_dict: d[w] = penalties[int(f)-1] for each
\* pair of zip(wordlist, freqs); raised is the IndexError of a bad index, and
\* then no dict is returned. A word listed twice keeps its last penalty.
get_freq_penalty_dict(wl, fr) ==
    LET n == ZipLen(wl, fr)
        last(w) == CHOOSE k \in 1..n : wl[k] = w /\ \A j \in (k+1)..n : wl[j] # w
    IN  IF \E k \in 1..n : ~PyIndexOk(AdjustedPenalties, fr[k] - 1)
        THEN [raised |-> TRUE, d |-> <<>>]
        ELSE [raised |-> FALSE,
              d |-> [w \in {wl[k] : k \in 1..n} |->
                        PyGet(AdjustedPenalties, fr[last(w)] - 1)]]

----------------------------------------------------------------------------
(* get_best_guess                                                          *)

\* pens.sort(key=lambda x: x[1]): a stable sort of (word, penalty) pairs,
\* here by insertion: x goes behind every entry whose penalty is <= its own
RECURSIVE InsertPen(_, _)
InsertPen(sorted, x) ==
    IF sorted = <<>> THEN <<x>>
    ELSE IF sorted[Len(sorted)][2] <= x[2] THEN Append(sorted, x)
    ELSE Append(InsertPen(SubSeq(sorted, 1, Len(sorted) - 1), x), sorted[Len(sorted)])

RECURSIVE SortPens(_, _)
SortPens(i, pens) ==
    IF i = 0 THEN <<>> ELSE InsertPen(SortPens(i - 1, pens), pens[i])

\* (self.highest_penalty-1)/4, scaled
DominanceGap == ((HighestPenaltyNum - HighestPenaltyDen) * PenaltyScale)
                    \div (4 * HighestPenaltyDen)

\* the returns of get_best_guess before the search: [hit, word, path]
FastPath(cand, pd) ==
    IF Len(cand) = 0 THEN [hit |-> TRUE, word |-> None, path |-> "empty"]
    ELSE IF Len(cand) = 1 THEN [hit |-> TRUE, word |-> cand[1], path |-> "single"]
    ELSE IF Len(cand) = 2
         THEN [hit |-> TRUE, path |-> "pair",
               word |-> IF pd[cand[2]] < pd[cand[1]] THEN cand[2] ELSE cand[1]]
    ELSE IF Len(cand) <= 6
         THEN LET pens == SortPens(Len(cand), [k \in 1..Len(cand) |-> <<cand[k], pd[cand[k]]>>])
              IN  IF pens[1][2] <= pens[2][2] - DominanceGap
                  THEN [hit |-> TRUE, word |-> pens[1][1], path |-> "dominant"]
                  ELSE [hit |-> FALSE, word |-> None, path |-> "search"]
    ELSE [hit |-> FALSE, word |-> None, path |-> "search"]

\* wordlist = self.wordlist_filtered if self.hardmode else self.wordlist
GuessPool(cand, lex, hard) == IF hard THEN cand ELSE lex

\* compares_per_word = min(self.max_comparisons//len(wordlist), len(wordlist))
ComparesPerWord(pool, mc) == Min(mc \div Len(pool), Len(pool))

\* the k-th element (from 1) of a set of positions, in increasing order
Kth(S, k) == CHOOSE i \in S : Cardinality({j \in S : j < i}) = k - 1

\* the elements of s at the positions S, in the order of s
Pick(s, S) == [k \in 1..Cardinality(S) |-> s[Kth(S, k)]]

\* a slip that ignores the budget: the whole candidate list is always compared
SublistChoicesUncapped(cand, pool, mc) == {cand}

\* the sublist of the search: the whole candidate list when compares_per_word
\* covers it, else random.sample(self.wordlist_filtered, compares_per_word):
\* any compares_per_word entries of the list. The order random.sample gives
\* them in does not reach the result (only the counts per colour result do),
\* so each sample is kept in list order.
SublistChoices(cand, pool, mc) ==
    IF ComparesPerWord(pool, mc) >= Len(cand) THEN {cand}
    ELSE {Pick(cand, S) : S \in {T \in SUBSET (1..Len(cand)) :
                                    Cardinality(T) = ComparesPerWord(pool, mc)}}

\* max(result_dict[g].values()): the largest number of sublist targets that
\* give guess g one and the same colour result
MaxBucket(g, sub) ==
    LET res == [j \in 1..Len(sub) |-> check_word(sub[j], g)]
        cnt(j) == Cardinality({k \in 1..Len(sub) : res[k] = res[j]})
    IN  CHOOSE c \in {cnt(j) : j \in 1..Len(sub)} :
            \A j \in 1..Len(sub) : cnt(j) <= c

\* lowest_max = 999999999999, which is above every penalized count a lexicon
\* can give; the model keeps the largest such number TLC's integers hold
\* (scaled like the penalties, it is still above every score of the model)
LowestMaxStart == 999999999

\* a slip in the comparison: <= lets the last of several minima win
RECURSIVE LowestMaxLast(_, _, _, _, _)
LowestMaxLast(i, pool, sub, pd, best) ==
    IF i > Len(pool) THEN best.word
    ELSE LET v == MaxBucket(pool[i], sub) * pd[pool[i]]
         IN  IF v <= best.val
             THEN LowestMaxLast(i + 1, pool, sub, pd, [word |-> pool[i], val |-> v])
             ELSE LowestMaxLast(i + 1, pool, sub, pd, best)

\* the last loop of get_best_guess over result_dict, whose keys are the pool
\* words in pool order (a pool without repeated words, as a lexicon is)
RECURSIVE LowestMax(_, _, _, _, _)
LowestMax(i, pool, sub, pd, best) ==
    IF i > Len(pool) THEN best.word
    ELSE LET v == MaxBucket(pool[i], sub) * pd[pool[i]]
         IN  IF v < best.val
             THEN LowestMax(i + 1, pool, sub, pd, [word |-> pool[i], val |-> v])
             ELSE LowestMax(i + 1, pool, sub, pd, best)

\* get_best_guess with sub the sublist it drew: the guess, the branch that
\* returned it, the sublist used and the number of check_word calls made
\* (one per pair of the two nested loops). An empty sublist leaves
\* result_dict empty and lowest_max_word None.
get_best_guess(cand, lex, pd, hard, sub) ==
    LET fp == FastPath(cand, pd)
        pool == GuessPool(cand, lex, hard)
    IN  IF fp.hit
        THEN [guess |-> fp.word, path |-> fp.path, sublist |-> <<>>, calls |-> 0]
        ELSE [guess |-> IF sub = <<>> THEN None
                        ELSE LowestMax(1, pool, sub, pd,
                                 [word |-> None, val |-> LowestMaxStart]),
              path |-> "search", sublist |-> sub,
              calls |-> Len(pool) * Len(sub)]

----------------------------------------------------------------------------
(* play: one action per pass of its loop                                   *)

\* bounds of the model
MaxLex == 4
MaxTurn == 4
MaxRounds == 2
MaxBuildLex == 2

\* the words lexicons are drawn from, in file order
Vocabulary ==
    << <<"a", "a", "a", "a", "a">>, <<"a", "a", "a", "a", "b">>,
       <<"a", "a", "a", "a", "c">>, <<"a", "a", "a", "a", "d">>,
       <<"a", "a", "a", "b", "a">> >>

\* the frequency tiers the lexicons of a session use (the rarest and the most common)
SessionTiers == {1, 6}

\* the values tried for the adjustable max_comparisons
MaxComparisonsChoices == {1, 8, MaxComparisonsDefault}

\* the lexicons of at most n words with tiers from T: [wordlist, freqs]
Lexicons(n, T) ==
    UNION {{[wordlist |-> Pick(Vocabulary, S), freqs |-> fr] :
                fr \in [1..Cardinality(S) -> T]} :
           S \in {X \in SUBSET (1..Len(Vocabulary)) :
                     Cardinality(X) >= 1 /\ Cardinality(X) <= n}}

\* __init__ done (lines 26-36), play not yet called
Init ==
    /\ \E lx \in Lexicons(MaxLex, SessionTiers) :
          /\ wordlist = lx.wordlist
          /\ freqs = lx.freqs
          /\ penalty_dict = get_freq_penalty_dict(lx.wordlist, lx.freqs).d
          /\ wordlist_filtered = lx.wordlist
    /\ turn = 0
    /\ hardmode = FALSE
    /\ max_comparisons \in MaxComparisonsChoices
    /\ target \in ToSet(Vocabulary) \cup {None}
    /\ guess = None
    /\ pc = "start"
    /\ path = "none"
    /\ sublist = <<>>
    /\ calls = 0
    /\ rounds = <<>>

\* play, lines 197-201: the hardmode prompt
StartPlay ==
    /\ pc = "start"
    /\ \E h \in BOOLEAN : hardmode' = h
    /\ pc' = "playing"
    /\ UNCHANGED <<wordlist, freqs, penalty_dict, wordlist_filtered, turn,
                   max_comparisons, target, guess, path, sublist, calls, rounds>>

\* the sublists get_best_guess can draw in the current state
CurrentSublists ==
    IF FastPath(wordlist_filtered, penalty_dict).hit THEN {<<>>}
    ELSE SublistChoices(wordlist_filtered,
                        GuessPool(wordlist_filtered, wordlist, hardmode),
                        max_comparisons)

BestGuess(sub) ==
    get_best_guess(wordlist_filtered, wordlist, penalty_dict, hardmode, sub)

\* the colour results the loop can get for guess g: check_word's when there is
\* a target, else any string the user types that validate_color_string accepts
Results(g) ==
    IF target = None THEN {s \in ColorStrings : validate_color_string(s)}
    ELSE {check_word(target, g)}

\* self.turn += 1, the counter kept within MaxTurn
NextTurn == IF turn < MaxTurn THEN turn + 1 ELSE turn

\* a pass of the loop that ends at "NO KNOWN WORDS LEFT!"
TurnNoGuess ==
    /\ pc = "playing"
    /\ \E sub \in CurrentSublists : \E r \in {BestGuess(sub)} :
          /\ r.guess = None
          /\ guess' = r.guess /\ path' = r.path
          /\ sublist' = r.sublist /\ calls' = r.calls
    /\ turn' = NextTurn
    /\ pc' = "no_words_left"
    /\ UNCHANGED <<wordlist, freqs, penalty_dict, wordlist_filtered, hardmode,
                   max_comparisons, target, rounds>>

\* a pass of the loop whose result is GGGGG: play returns self.turn
TurnSolved ==
    /\ pc = "playing"
    /\ \E sub \in CurrentSublists : \E r \in {BestGuess(sub)} :
          /\ r.guess # None
          /\ AllGreen \in Results(r.guess)
          /\ guess' = r.guess /\ path' = r.path
          /\ sublist' = r.sublist /\ calls' = r.calls
    /\ turn' = NextTurn
    /\ pc' = "solved"
    /\ UNCHANGED <<wordlist, freqs, penalty_dict, wordlist_filtered, hardmode,
                   max_comparisons, target, rounds>>

\* a pass of the loop with any other result: filter_wordlist, and round again
TurnContinue ==
    /\ pc = "playing"
    /\ \E sub \in CurrentSublists : \E r \in {BestGuess(sub)} :
          /\ r.guess # None
          /\ \E res \in Results(r.guess) :
                /\ res # AllGreen
                /\ wordlist_filtered' = filter_wordlist(wordlist_filtered, r.guess, res)
          /\ guess' = r.guess /\ path' = r.path
          /\ sublist' = r.sublist /\ calls' = r.calls
    /\ turn' = NextTurn
    /\ pc' = "playing"
    /\ UNCHANGED <<wordlist, freqs, penalty_dict, hardmode,
                   max_comparisons, target, rounds>>

Next == StartPlay \/ TurnNoGuess \/ TurnSolved \/ TurnContinue

Spec == Init /\ [][Next]_vars

----------------------------------------------------------------------------
(* construction alone, for any tiers the lexicon file may hold             *)

BuildTiers == (0 - 7)..8

InitBuild ==
    /\ \E lx \in Lexicons(MaxBuildLex, BuildTiers) :
          /\ wordlist = lx.wordlist
          /\ freqs = lx.freqs
          /\ wordlist_filtered = lx.wordlist
    /\ penalty_dict = <<>>
    /\ turn = 0
    /\ hardmode = FALSE
    /\ max_comparisons = MaxComparisonsDefault
    /\ target = None
    /\ guess = None
    /\ pc = "init"
    /\ path = "none"
    /\ sublist = <<>>
    /\ calls = 0
    /\ rounds = <<>>

\* __init__, line 36: get_freq_penalty_dict returns the table
ConstructOk ==
    /\ pc = "init"
    /\ ~get_freq_penalty_dict(wordlist, freqs).raised
    /\ penalty_dict' = get_freq_penalty_dict(wordlist, freqs).d
    /\ pc' = "start"
    /\ UNCHANGED <<wordlist, freqs, wordlist_filtered, turn, hardmode,
                   max_comparisons, target, guess, path, sublist, calls, rounds>>

\* __init__, line 36: get_freq_penalty_dict raises, no solver is built
ConstructRaise ==
    /\ pc = "init"
    /\ get_freq_penalty_dict(wordlist, freqs).raised
    /\ pc' = "raised"
    /\ UNCHANGED <<wordlist, freqs, penalty_dict, wordlist_filtered, turn, hardmode,
                   max_comparisons, target, guess, path, sublist, calls, rounds>>

NextBuild == ConstructOk \/ ConstructRaise

SpecBuild == InitBuild /\ [][NextBuild]_vars

----------------------------------------------------------------------------
(* check_word and filter_wordlist on every pair of words over three letters *)

Words3 == [1..WordLen -> {"a", "b", "c"}]

InitCheck ==
    /\ target \in Words3
    /\ \E other \in Words3 : wordlist = <<other, target>>
    /\ wordlist_filtered = wordlist
    /\ freqs = <<6, 6>>
    /\ penalty_dict = get_freq_penalty_dict(wordlist, freqs).d
    /\ turn = 0
    /\ hardmode = FALSE
    /\ max_comparisons = MaxComparisonsDefault
    /\ guess = None
    /\ pc = "check"
    /\ path = "none"
    /\ sublist = <<>>
    /\ calls = 0
    /\ rounds = <<>>

\* lines 216 and 225 for a guess g of the lexicon: the result of g against the
\* target, then the filter
CheckStep ==
    /\ pc = "check"
    /\ \E g \in ToSet(wordlist) :
          /\ guess' = g
          /\ rounds' = <<<<g, check_word(target, g)>>>>
          /\ wordlist_filtered' =
                 filter_wordlist(wordlist_filtered, g, check_word(target, g))
    /\ pc' = "checked"
    /\ UNCHANGED <<wordlist, freqs, penalty_dict, turn, hardmode,
                   max_comparisons, target, path, sublist, calls>>

NextCheck == CheckStep

SpecCheck == InitCheck /\ [][NextCheck]_vars

----------------------------------------------------------------------------
(* rounds of check_word and filter_wordlist for arbitrary lexicon guesses   *)

Letters4 == <<"a", "b", "c", "d">>

\* the sixteen words aaaxy over four letters
FilterLexicon ==
    [k \in 1..(Len(Letters4) * Len(Letters4)) |->
        <<"a", "a", "a", Letters4[((k - 1) \div Len(Letters4)) + 1],
          Letters4[((k - 1) % Len(Letters4)) + 1]>>]

InitFilter ==
    /\ wordlist = FilterLexicon
    /\ freqs = [k \in 1..Len(FilterLexicon) |-> 6]
    /\ penalty_dict = get_freq_penalty_dict(wordlist, freqs).d
    /\ wordlist_filtered = wordlist
    /\ target \in ToSet(FilterLexicon)
    /\ turn = 0
    /\ hardmode = FALSE
    /\ max_comparisons = MaxComparisonsDefault
    /\ guess = None
    /\ pc = "rounds"
    /\ path = "none"
    /\ sublist = <<>>
    /\ calls = 0
    /\ rounds = <<>>

\* lines 216 and 225 for any lexicon word g as the guess
FilterRound ==
    /\ pc = "rounds"
    /\ Len(rounds) < MaxRounds
    /\ \E g \in ToSet(wordlist) :
          /\ guess' = g
          /\ rounds' = Append(rounds, <<g, check_word(target, g)>>)
          /\ wordlist_filtered' =
                 filter_wordlist(wordlist_filtered, g, check_word(target, g))
    /\ UNCHANGED <<wordlist, freqs, penalty_dict, turn, hardmode,
                   max_comparisons, target, pc, path, sublist, calls>>

NextFilter == FilterRound

SpecFilter == InitFilter /\ [][NextFilter]_vars

----------------------------------------------------------------------------
(* Properties of check_word and of one filter round (SpecCheck)            *)

\* the guess and the colour result of the latest round
LastGuess == rounds[Len(rounds)][1]
LastResult == rounds[Len(rounds)][2]

LettersOf(w) == {w[i] : i \in 1..Len(w)}

\* the positions where target and guess agree, and for a letter L the other
\* positions of the guess that hold L
HitPositions(t, g) == {i \in 1..WordLen : t[i] = g[i]}
NonHitPositions(t, g, L) == {i \in 1..WordLen : g[i] = L /\ t[i] # g[i]}

\* the occurrences of L left in the target once the hits are taken out
Remaining(t, g, L) == Count(t, L) - Cardinality({i \in HitPositions(t, g) : t[i] = L})

\* C1: the target is never eliminated by the filter applied to its own
\* feedback: after a round with result check_word(target, guess), the target
\* is still in wordlist_filtered.
C1_FilterKeepsTarget ==
    pc = "checked" => In(target, wordlist_filtered)

\* a round whose result marks one letter both yellow and grey, the guess being
\* another word, dropped while the target stays
C1_Witness ==
    /\ pc = "checked"
    /\ guess # target
    /\ \E i, j \in 1..WordLen :
          /\ LastGuess[i] = LastGuess[j]
          /\ LastResult[i] = "Y" /\ LastResult[j] = "X"
    /\ wordlist_filtered = <<target>>

\* C2: for every letter L, the positions of a colour result marked G or Y
\* whose guess letter is L are never more than the occurrences of L in the
\* target.
C2_MarksWithinTargetCount ==
    pc = "checked" =>
        \A L \in LettersOf(LastGuess) :
            Cardinality({i \in 1..WordLen :
                            LastResult[i] \in {"G", "Y"} /\ LastGuess[i] = L})
                <= Count(target, L)

\* a guess with three of a letter the target has twice: a green, a yellow and
\* a grey of that letter
C2_Witness ==
    /\ pc = "checked"
    /\ \E i, j, k \in 1..WordLen :
          /\ LastGuess[i] = LastGuess[j] /\ LastGuess[j] = LastGuess[k]
          /\ LastResult[i] = "G" /\ LastResult[j] = "Y" /\ LastResult[k] = "X"
          /\ Count(target, LastGuess[i]) = 2

\* C3: when a letter L is at more non-hit positions of the guess than L is left
\* in the target once the hits are removed, exactly the leftmost of these
\* positions, as many as are left in the target, are marked Y and the later
\* ones X; LEVEL against EERIE gives YGXXX and CRANE against TRACE gives XGGYG.
C3_LeftmostPresent ==
    /\ pc = "checked" =>
          \A L \in LettersOf(LastGuess) :
              Cardinality(NonHitPositions(target, LastGuess, L))
                      > Remaining(target, LastGuess, L)
                  => \A i \in NonHitPositions(target, LastGuess, L) :
                        LastResult[i] =
                            IF Cardinality({j \in NonHitPositions(target, LastGuess, L) : j < i})
                                   < Remaining(target, LastGuess, L)
                            THEN "Y" ELSE "X"
    /\ check_word(<<"l", "e", "v", "e", "l">>, <<"e", "e", "r", "i", "e">>)
           = <<"Y", "G", "X", "X", "X">>
    /\ check_word(<<"c", "r", "a", "n", "e">>, <<"t", "r", "a", "c", "e">>)
           = <<"X", "G", "G", "Y", "G">>

\* a letter with one occurrence left in the target and three non-hit positions
\* in the guess, one of them marked Y and one marked X
C3_Witness ==
    /\ pc = "checked"
    /\ \E L \in LettersOf(LastGuess) :
          /\ Remaining(target, LastGuess, L) = 1
          /\ Cardinality(NonHitPositions(target, LastGuess, L)) = 3
          /\ \E i, j \in NonHitPositions(target, LastGuess, L) :
                i < j /\ LastResult[i] = "Y" /\ LastResult[j] = "X"

----------------------------------------------------------------------------
(* Properties of rounds of filtering (SpecFilter)                          *)

\* the lexicon words that give every guess made so far the result it got
Consistent ==
    {w \in ToSet(wordlist) :
        \A k \in 1..Len(rounds) : check_word(w, rounds[k][1]) = rounds[k][2]}

\* C9: after any sequence of guesses, each filtered with the result
\* check_word(target, guess), the candidates are exactly the lexicon words
\* that would have given every one of these guesses the same result.
C9_FilterExact ==
    pc = "rounds" => ToSet(wordlist_filtered) = Consistent

\* two rounds, the second with a yellow and dropping candidates the first had
\* left, after which several candidates remain
C9_Witness ==
    /\ pc = "rounds"
    /\ Len(rounds) = 2
    /\ \E i \in 1..WordLen : rounds[2][2][i] = "Y"
    /\ Len(wordlist_filtered) >= 2
    /\ Cardinality({w \in ToSet(wordlist) :
                       check_word(w, rounds[1][1]) = rounds[1][2]})
           > Len(wordlist_filtered)

----------------------------------------------------------------------------
(* Properties of a session (Spec)                                          *)

\* the consequence C1 draws for a session played against a lexicon word: the
\* target stays among the candidates after any number of rounds
SessionKeepsTarget ==
    (target # None /\ In(target, wordlist)) => In(target, wordlist_filtered)

\* C4: the candidates are always lexicon words, and no step (a filter call
\* with any guess and any well-formed result among them) adds a candidate:
\* the set after is a subset of the set before and is no longer.
C4_MonotoneShrink ==
    /\ [](ToSet(wordlist_filtered) \subseteq ToSet(wordlist))
    /\ [][/\ ToSet(wordlist_filtered') \subseteq ToSet(wordlist_filtered)
          /\ Len(wordlist_filtered') <= Len(wordlist_filtered)]_vars

\* a manual session in which two rounds of typed results, true of no lexicon
\* word, have emptied the candidates
C4_Witness ==
    /\ target = None
    /\ pc = "playing"
    /\ turn = 2
    /\ Len(wordlist) >= 3
    /\ wordlist_filtered = <<>>

\* C5 as stated: get_best_guess returns None only for an empty candidate
\* list, so that "NO KNOWN WORDS LEFT!" is reached only with no candidate left.
C5_NoneOnlyWhenEmpty ==
    pc = "no_words_left" => wordlist_filtered = <<>>

\* C6: the check_word calls of one get_best_guess never exceed
\* |pool| * min(max_comparisons / |pool|, |candidates|), that is neither
\* max_comparisons nor |pool| * |candidates|, for the pool and the candidates
\* the call starts from.
C6_BudgetRespected ==
    [][/\ calls' <= max_comparisons
       /\ calls' <= Len(GuessPool(wordlist_filtered, wordlist, hardmode))
                        * Len(wordlist_filtered)]_vars

\* a search that compared a sample of two candidates with each of four pool
\* words, which is the whole budget of eight
C6_Witness ==
    /\ path = "search"
    /\ max_comparisons = 8
    /\ Len(wordlist) = 4
    /\ Len(sublist) = 2
    /\ calls = 8

\* the largest number of candidates that give guess g one colour result: the
\* maximum over all colour results is reached at one some candidate gives
WorstBucket(g, cands) ==
    LET got == {<<t, check_word(t, g)>> : t \in cands}
        sizes == {Cardinality({q \in got : q[2] = p[2]}) : p \in got}
    IN  CHOOSE n \in sizes : \A m \in sizes : m <= n

\* penalty * worst bucket of the first k pool words, in pool order
RECURSIVE Scores(_, _, _, _)
Scores(k, pool, cands, pd) ==
    IF k = 0 THEN <<>>
    ELSE Append(Scores(k - 1, pool, cands, pd), pd[pool[k]] * WorstBucket(pool[k], cands))

\* C8: a search over the whole candidate list returns the pool word with the
\* least penalty * worst bucket, the first such word in pool order.
C8_FirstMinimum ==
    [][(pc = "playing" /\ path' = "search" /\ sublist' = wordlist_filtered) =>
          \E pool \in {GuessPool(wordlist_filtered, wordlist, hardmode)} :
          \E score \in {Scores(Len(pool), pool, ToSet(wordlist_filtered), penalty_dict)} :
          \E k \in 1..Len(pool) :
             /\ guess' = pool[k]
             /\ \A j \in 1..Len(pool) : score[k] <= score[j]
             /\ \A j \in 1..(k - 1) : score[j] > score[k]]_vars

\* a search of the whole lexicon over three candidates that returned a word
\* behind a lexicon word of a larger score and ahead of one of the same score
C8_Witness ==
    /\ path = "search"
    /\ ~hardmode
    /\ Len(sublist) = 3
    /\ \E score \in {Scores(Len(wordlist), wordlist, ToSet(sublist), penalty_dict)} :
       \E k \in 2..Len(wordlist) :
          /\ guess = wordlist[k]
          /\ score[1] > score[k]
          /\ \E j \in (k + 1)..Len(wordlist) : score[j] = score[k]

\* C10 as stated: a session with a target of the lexicon (and the program's
\* own max_comparisons, with which the search compares the whole candidate
\* list and draws nothing at random) does not repeat itself forever. The next
\* guess being a function of the candidates, the mode and the lexicon, a round
\* that leaves the candidates as they were is followed by the same round
\* again, without end: so every round that does not end the session must
\* change the candidates.
C10_NoRoundRepeats ==
    [][(/\ target # None /\ In(target, wordlist)
        /\ max_comparisons = MaxComparisonsDefault
        /\ pc = "playing" /\ pc' = "playing")
           => wordlist_filtered' # wordlist_filtered]_vars

----------------------------------------------------------------------------
(* Properties of construction (SpecBuild)                                  *)

\* C7 as stated: no solver is built from a lexicon with a tier outside 1..6.
C7_BadTierRejected ==
    pc = "start" => \A k \in 1..Len(freqs) : freqs[k] \in 1..6

====
